---------------------------- MODULE Spec2Model ----------------------------
(***************************************************************************)
(* Job registry (downloads_in_progress / completed_downloads), background  *)
(* download tasks, the synchronous direct-download handler and the         *)
(* retention sweeper of app.py, as one state machine.  Every dictionary    *)
(* operation and every file-system call is one atomic step (the            *)
(* interpreter lock makes single dict operations atomic; nothing else is). *)
(***************************************************************************)
EXTENDS Integers, Sequences, FiniteSets, TLC

\* ------------------------------------------------------------------ bounds
MaxJobs == 1        \* handles that can be allocated (uuid4 values)
MaxTicks == 3       \* clock advances
MaxDirect == 2      \* handles when only direct-download requests are made
MaxFormats == 2     \* variants in the list the extractor returns

\* ------------------------------------------------------- program constants
RetentionAge == 7200
SleepInterval == 3600

Handles == 1..(IF MaxDirect > MaxJobs THEN MaxDirect ELSE MaxJobs)
\* The clock starts at an arbitrary epoch and advances in steps of TickLen,
\* so that a record or file can be younger than RetentionAge, exactly that
\* old, or older.
TickLen == SleepInterval
Now0 == RetentionAge
MaxNow == Now0 + MaxTicks * TickLen

\* ------------------------------------------------------------------- paths
\* DOWNLOAD_FOLDER / TEMP_FOLDER and the file names the handlers build.
DOWNLOAD_FOLDER == "downloads"
TEMP_FOLDER == "temp"

NonePath == [dir |-> "", id |-> 0, tag |-> "", ext |-> ""]
Path(d, i, t, e) == [dir |-> d, id |-> i, tag |-> t, ext |-> e]

\* output_path of process_download: DOWNLOAD_FOLDER/<download_id>.mp4
OutputPath(h) == Path(DOWNLOAD_FOLDER, h, "out", "mp4")

\* The extensions find_downloaded_file tries, in order.
CandidateExts == <<"mp4", "webm", "mkv", "m4a", "mp3", "f4v">>

\* Extensions the extractor may report (info), leave in TEMP_FOLDER (merged to
\* mp4 by 'merge_output_format'), and leave beside output_path.
InfoExts == {"mp4", "webm"}
DiskExts == {"mp4"}
DirectExts == {"mp4", "webm"}

VARIABLES
    now,                    \* time.time()
    nextId,                 \* the next uuid4 value
    pc,                     \* position of each handle's task / request
    args,                   \* arguments of the request that owns the handle
    loc,                    \* locals of each task
    downloads_in_progress,
    completed_downloads,
    files,                  \* the two folders: set of [path, mtime, whole]
    sw,                     \* the cleanup thread: position and locals
    cached,                 \* a direct-download request served from the cache
    reclaimed,              \* handles whose record the sweeper has popped
    http                    \* /api/video-info and /api/download: the request
                            \* being handled, then the response it got

vars == <<now, nextId, pc, args, loc, downloads_in_progress,
          completed_downloads, files, sw, cached, reclaimed, http>>

NoJob == [status |-> "absent"]

\* ------------------------------------------------------------ file system
Exists(fs, p) == \E f \in fs : f.path = p
MTime(fs, p) == (CHOOSE f \in fs : f.path = p).mtime
Remove(fs, p) == {f \in fs : f.path # p}
\* whole: the writer of the file has written all of it
Whole(fs, p) == (CHOOSE f \in fs : f.path = p).whole
WriteFile(fs, p, t) ==
    Remove(fs, p) \cup {[path |-> p, mtime |-> t, whole |-> TRUE]}
\* a file whose writer has opened it and has not, or not yet, finished it
WritePartial(fs, p, t) ==
    Remove(fs, p) \cup {[path |-> p, mtime |-> t, whole |-> FALSE]}
\* os.rename keeps the content and the modification time and replaces the
\* destination.
Rename(fs, a, b) ==
    Remove(Remove(fs, a), b)
        \cup {[path |-> b, mtime |-> MTime(fs, a), whole |-> Whole(fs, a)]}
ListDir(fs, d) == {f.path : f \in {g \in fs : g.path.dir = d}}

\* find_downloaded_file(base_filename)
RECURSIVE FindCandidate(_, _, _)
FindCandidate(fs, base, i) ==
    IF i > Len(CandidateExts) THEN NonePath
    ELSE LET candidate == [base EXCEPT !.ext = CandidateExts[i]]
         IN IF Exists(fs, candidate) THEN candidate
            ELSE FindCandidate(fs, base, i + 1)

find_downloaded_file(fs, base_filename) ==
    IF Exists(fs, base_filename) THEN base_filename
    ELSE FindCandidate(fs, base_filename, 1)


\* ------------------------------------------------------- progress strings
\* '_percent_str' values as character sequences; Missing: the key is absent.
Missing == <<"<", "m", "i", "s", "s", "i", "n", "g", ">">>
PercentStrs ==
    { <<" ", "5", "0", "%">>, <<"2", "0", "%">>, <<"N", "/", "A">>,
      <<"?", "%">>, Missing }

Digits == <<"0", "1", "2", "3", "4", "5", "6", "7", "8", "9">>
IsDigit(c) == \E i \in 1..10 : Digits[i] = c
DigitVal(c) == (CHOOSE i \in 1..10 : Digits[i] = c) - 1

\* str.replace('%', '')
ReplacePercent(s) == SelectSeq(s, LAMBDA c : c # "%")

\* float() ignores surrounding blanks
RECURSIVE LStrip(_)
LStrip(s) == IF s # <<>> /\ Head(s) = " " THEN LStrip(Tail(s)) ELSE s
RECURSIVE RStrip(_)
RStrip(s) ==
    IF s # <<>> /\ s[Len(s)] = " " THEN RStrip(SubSeq(s, 1, Len(s) - 1)) ELSE s

RECURSIVE DecimalValue(_)
DecimalValue(s) ==
    IF s = <<>> THEN 0
    ELSE 10 * DecimalValue(SubSeq(s, 1, Len(s) - 1)) + DigitVal(s[Len(s)])

ValueError == -1
\* float(text) for the whole-number texts of PercentStrs; ValueError otherwise
Float(text) ==
    LET t == RStrip(LStrip(text))
    IN IF t # <<>> /\ \A i \in 1..Len(t) : IsDigit(t[i])
       THEN DecimalValue(t) ELSE ValueError

\* A progress event d handed to the hook by the extractor.
Events ==
    [status : {"downloading"}, percent : PercentStrs]
        \cup {[status |-> "finished", percent |-> Missing],
              [status |-> "error", percent |-> Missing]}

\* update_progress with the slip of leaving out the test of line 393 and
\* writing through an entry made on demand.
update_progressUnguarded(tbl, download_id, d) ==
    LET cur == IF tbl[download_id] = NoJob
               THEN [status |-> "downloading", progress |-> 0, start_time |-> 0]
               ELSE tbl[download_id]
    IN IF d.status = "downloading"
       THEN LET percent_str == IF d.percent = Missing THEN <<"0", "%">> ELSE d.percent
            IN IF percent_str # <<>> /\ percent_str # <<"N", "/", "A">>
                  /\ Float(ReplacePercent(percent_str)) # ValueError
               THEN [tbl EXCEPT ![download_id] =
                        [cur EXCEPT !.progress = Float(ReplacePercent(percent_str))]]
               ELSE tbl
       ELSE IF d.status = "finished"
       THEN [tbl EXCEPT ![download_id] =
                [cur EXCEPT !.status = "processing", !.progress = 100]]
       ELSE tbl

\* update_progress(download_id, d): the new in-flight table
update_progress(tbl, download_id, d) ==
    IF tbl[download_id] = NoJob THEN tbl
    ELSE IF d.status = "downloading"
    THEN LET percent_str == IF d.percent = Missing THEN <<"0", "%">> ELSE d.percent
         IN IF percent_str # <<>> /\ percent_str # <<"N", "/", "A">>
               /\ Float(ReplacePercent(percent_str)) # ValueError
            THEN [tbl EXCEPT ![download_id].progress =
                                 Float(ReplacePercent(percent_str))]
            ELSE tbl
    ELSE IF d.status = "finished"
    THEN [tbl EXCEPT ![download_id].status = "processing",
                     ![download_id].progress = 100]
    ELSE tbl

\* --------------------------------------------------------------- endpoints
\* check_download_status(download_id)
check_download_status(download_id) ==
    IF downloads_in_progress[download_id] # NoJob
    THEN [code |-> 200,
          status |-> downloads_in_progress[download_id].status,
          progress |-> downloads_in_progress[download_id].progress]
    ELSE IF completed_downloads[download_id] # NoJob
    THEN [code |-> 200,
          status |-> completed_downloads[download_id].status,
          progress |-> -1]
    ELSE [code |-> 404, status |-> "Download ID not found", progress |-> -1]

\* get_downloaded_file(download_id): the HTTP status
get_downloaded_file(download_id) ==
    IF /\ completed_downloads[download_id] # NoJob
       /\ completed_downloads[download_id].status = "completed"
       /\ Exists(files, completed_downloads[download_id].file_path)
    THEN 200 ELSE 404


\* ------------------------------------------------------------------- Init
\* A format selector handed to the extractor as 'format': "<fmt>",
\* "<fmt>+<audio>" or "<fmt>+<audio>/<fallback>"
Selector(fmt, audio, fallback) == [fmt |-> fmt, audio |-> audio, fallback |-> fallback]
NoSelector == Selector("", "", "")

\* target: what is known of the requested variant ("unknown" before the
\* extractor has been asked; "notfound": not among the variants; else its
\* acodec)
NoLoc == [video_path |-> NonePath, audio_path |-> NonePath,
          actual_file |-> NonePath, err |-> "", fault |-> "none",
          hung |-> FALSE, selector |-> NoSelector, target |-> "unknown"]
NoArgs == [kind |-> "none", video_id |-> 0, format_id |-> "", audio_id |-> ""]
NoCached == [pc |-> "idle", path |-> NonePath]
NoSw == [pc |-> "start", now |-> 0, folder |-> 1, todo |-> {}, cur |-> NonePath,
         used |-> 0, seen |-> {}, to_remove |-> <<>>, slept |-> 0, due |-> {},
         removed |-> {}]

NoHttp == [handler |-> "", url |-> "", pc |-> "idle", cause |-> "none",
           code |-> 0, error |-> ""]

Init ==
    /\ now = Now0
    /\ nextId = 1
    /\ pc = [h \in Handles |-> "idle"]
    /\ args = [h \in Handles |-> NoArgs]
    /\ loc = [h \in Handles |-> NoLoc]
    /\ downloads_in_progress = [h \in Handles |-> NoJob]
    /\ completed_downloads = [h \in Handles |-> NoJob]
    /\ files = {}
    /\ sw = NoSw
    /\ cached = NoCached
    /\ reclaimed = {}
    /\ http = NoHttp

\* Positions at which a thread waits inside an external call (the extractor
\* or ffmpeg) or does not exist; everywhere else it is runnable, between two
\* of its own statements.
BlockingPc == {"idle", "done", "sent", "pd_video", "pd_audio", "pd_merging",
               "pd_extract", "dd_probe", "dd_extract"}

\* Time passes in steps of TickLen (an hour).  The interpreter hands the lock
\* to every runnable thread within milliseconds, so no thread stays between
\* two consecutive statements for such a step: the clock advances only while
\* every thread waits in an external call or in time.sleep, or has ended.
Tick ==
    /\ now < MaxNow
    /\ \A h \in Handles : pc[h] \in BlockingPc
    /\ sw.pc \in {"sleep", "crashed"}
    /\ cached.pc \in {"idle", "unhandled"}
    /\ now' = now + TickLen
    /\ UNCHANGED <<http, nextId, pc, args, loc, downloads_in_progress,
                   completed_downloads, files, sw, cached, reclaimed>>

\* An exception reaches the except clause of the handler that owns h.
Raise(h, e, target) ==
    /\ pc' = [pc EXCEPT ![h] = target]
    /\ loc' = [loc EXCEPT ![h].err = e]

SetFault(l, f) == [l EXCEPT !.fault = IF @ = "none" THEN f ELSE @]

\* -------------------------------------------------------- format selectors
\* The variants of a video as the extractor lists them (info['formats']).
FormatIds == {"f1", "f2"}
ACodecs == {"none", "mp4a"}
Variants == [format_id : FormatIds, acodec : ACodecs]
FormatLists == UNION {[1..n -> Variants] : n \in 0..MaxFormats}

\* lines 521-525: the first variant whose format_id is the requested one
NoFormat == [format_id |-> "", acodec |-> ""]
RECURSIVE FirstFormat(_, _, _)
FirstFormat(formats, format_id, i) ==
    IF i > Len(formats) THEN NoFormat
    ELSE IF formats[i].format_id = format_id THEN formats[i]
    ELSE FirstFormat(formats, format_id, i + 1)

\* lines 514-532: format_selector
DirectSelector(format_id, audio_id, formats) ==
    IF audio_id # "" THEN Selector(format_id, audio_id, "")
    ELSE LET target_format == FirstFormat(formats, format_id, 1)
         IN IF target_format # NoFormat /\ target_format.acodec = "none"
            THEN Selector(format_id, "bestaudio", "")
            ELSE Selector(format_id, "", "")

\* lines 291 and 306: 'format' of process_download without an audio_id
ProcessSelector(format_id) ==
    IF format_id # "" THEN Selector(format_id, "bestaudio", "best")
    ELSE Selector("bestvideo", "bestaudio", "best")

\* What the extractor can deliver for a selector: the requested variant when
\* it is available, else the fallback when the selector names one.
Deliverable(selector, available) == available \/ selector.fallback # ""

\* ------------------------------------------------------- /api/download
\* The url parameter of a request: absent or empty ("") or given.
Urls == {"", "U"}

\* A response: jsonify(...) with its HTTP status
Response(handler, url, cause, code, error) ==
    [handler |-> handler, url |-> url, pc |-> "responded", cause |-> cause,
     code |-> code, error |-> error]

\* lines 212-214 and 578: {"error": str(e)}, 500
ErrorResponse(handler, url, cause, e) == Response(handler, url, cause, 500, e)

\* download_video with the slip of leaving out the test of url (233-234).
download_videoNoCheck(url, format_id, audio_id) ==
    /\ http.pc # "extract"
    /\ nextId \in Handles
    /\ pc' = [pc EXCEPT ![nextId] = "pd_insert"]
    /\ args' = [args EXCEPT ![nextId] =
                   [kind |-> "bg", video_id |-> 0, format_id |-> format_id,
                    audio_id |-> audio_id]]
    /\ nextId' = nextId + 1
    /\ http' = Response("download", url, "none", 200, "")
    /\ UNCHANGED <<now, loc, downloads_in_progress, completed_downloads,
                   files, sw, cached, reclaimed>>

\* download_video (229-250).  Without a url: 400.  With one: a fresh
\* download_id, the thread is started and the response carrying download_id
\* is returned.
download_video(url, format_id, audio_id) ==
    /\ http.pc # "extract"
    /\ IF url = ""
       THEN /\ http' = Response("download", url, "none", 400, "Missing video URL")
            /\ UNCHANGED <<nextId, pc, args>>
       ELSE /\ nextId \in Handles
            /\ pc' = [pc EXCEPT ![nextId] = "pd_insert"]
            /\ args' = [args EXCEPT ![nextId] =
                           [kind |-> "bg", video_id |-> 0, format_id |-> format_id,
                            audio_id |-> audio_id]]
            /\ nextId' = nextId + 1
            /\ http' = Response("download", url, "none", 200, "")
    /\ UNCHANGED <<now, loc, downloads_in_progress, completed_downloads,
                   files, sw, cached, reclaimed>>

\* ------------------------------------------------------- /api/video-info
\* What makes an extractor call fail.
FailureKinds == {"timeout", "unavailable", "other"}

\* get_video_info, lines 137-142: without a url 400, else the extractor is
\* called
get_video_info(url) ==
    /\ http.pc # "extract"
    /\ http' = IF url = ""
               THEN Response("video-info", url, "none", 400, "Missing video URL")
               ELSE [NoHttp EXCEPT !.handler = "video-info", !.url = url,
                                   !.pc = "extract"]
    /\ UNCHANGED <<now, nextId, pc, args, loc, downloads_in_progress,
                   completed_downloads, files, sw, cached, reclaimed>>

\* lines 144-214: extract_info(url, download=False) returns the metadata, or
\* fails ('ignoreerrors' makes it return None, and info.get raises; an error
\* that is raised gets to the same except clause)
GvExtract ==
    /\ http.pc = "extract"
    /\ \E cause \in {"none"} \cup FailureKinds :
          http' = IF cause = "none"
                  THEN Response("video-info", http.url, cause, 200, "")
                  ELSE ErrorResponse("video-info", http.url, cause, "NoneType")
    /\ UNCHANGED <<now, nextId, pc, args, loc, downloads_in_progress,
                   completed_downloads, files, sw, cached, reclaimed>>

\* lines 254-259 / 502-507
InFlightJob(t) == [status |-> "downloading", progress |-> 0, start_time |-> t]

\* process_download, line 254
PdInsert(h) ==
    /\ pc[h] = "pd_insert"
    /\ downloads_in_progress' = [downloads_in_progress EXCEPT ![h] = InFlightJob(now)]
    /\ pc' = [pc EXCEPT ![h] =
                 IF args[h].format_id # "" /\ args[h].audio_id # ""
                 THEN "pd_video" ELSE "pd_extract"]
    /\ UNCHANGED <<http, now, nextId, args, loc, completed_downloads, files, sw,
                   cached, reclaimed>>

\* What one extractor call that downloads (extract_info(url)) can do with
\* 'ignoreerrors': True.  "none": the extraction failed and extract_info
\* returned None; "nofile": info was returned and the failed download left no
\* file; an extension: the file written.
ExtractOutcomes == {"none", "nofile"} \cup DiskExts

\* download_specific_format(url, format_id, prefix): lines 356-367, called at
\* 276 (which = "video") and 277 (which = "audio").  No progress hook here.
PdDownloadSpecific(h, which) ==
    /\ pc[h] = (IF which = "video" THEN "pd_video" ELSE "pd_audio")
    /\ ~loc[h].hung
    /\ \E out \in ExtractOutcomes, ie \in InfoExts :
          LET written == Path(TEMP_FOLDER, h, which, out)
              fs == IF out \in DiskExts THEN WriteFile(files, written, now)
                    ELSE files
              downloaded_file == Path(TEMP_FOLDER, h, which, ie)
              found == find_downloaded_file(fs, downloaded_file)
          IN IF out = "none"
             THEN \* ydl.prepare_filename(None) raises
                  /\ pc' = [pc EXCEPT ![h] = "pd_except"]
                  /\ loc' = [loc EXCEPT ![h] =
                               SetFault([@ EXCEPT !.err = "NoneType"], "extractor")]
                  /\ UNCHANGED files
             ELSE /\ files' = fs
                  /\ loc' = [loc EXCEPT ![h] =
                               LET l == IF which = "video"
                                        THEN [@ EXCEPT !.video_path = found]
                                        ELSE [@ EXCEPT !.audio_path = found]
                               IN IF found = NonePath
                                  THEN SetFault(l, "extractor") ELSE l]
                  /\ pc' = [pc EXCEPT ![h] =
                               IF which = "video" THEN "pd_audio" ELSE "pd_merge"]
    /\ UNCHANGED <<http, now, nextId, args, downloads_in_progress,
                   completed_downloads, sw, cached, reclaimed>>

\* merge_video_audio(video_path, audio_path, output_path): TRUE when ffmpeg
\* wrote output_path.  A None argument makes subprocess.run raise TypeError,
\* which the function catches like every other failure.
merge_video_audio(fs, video_path, audio_path, ffmpeg_ok) ==
    /\ video_path # NonePath
    /\ audio_path # NonePath
    /\ Exists(fs, video_path)
    /\ Exists(fs, audio_path)
    /\ ffmpeg_ok

\* lines 279-280 and 372-382: ffmpeg is started.  With its two inputs at hand
\* it opens output_path, the final name of the artifact, and writes into it
\* while it runs; without them it fails at once (the result of
\* merge_video_audio is dropped at 280).
PdMergeStart(h) ==
    /\ pc[h] = "pd_merge"
    /\ IF merge_video_audio(files, loc[h].video_path, loc[h].audio_path, TRUE)
       THEN /\ files' = WritePartial(files, OutputPath(h), now)
            /\ pc' = [pc EXCEPT ![h] = "pd_merging"]
            /\ UNCHANGED loc
       ELSE /\ loc' = [loc EXCEPT ![h] = SetFault(@, "mux")]
            /\ pc' = [pc EXCEPT ![h] = "pd_rm"]
            /\ UNCHANGED files
    /\ UNCHANGED <<http, now, nextId, args, downloads_in_progress,
                   completed_downloads, sw, cached, reclaimed>>

\* line 382 returns: ffmpeg has written all of output_path, or has failed and
\* left what it had written (384-389; the result is dropped at 280)
PdMerge(h) ==
    /\ pc[h] = "pd_merging"
    /\ ~loc[h].hung
    /\ \E ffmpeg_ok \in BOOLEAN :
          LET ok == merge_video_audio(files, loc[h].video_path,
                                      loc[h].audio_path, ffmpeg_ok)
          IN /\ files' = IF ok THEN WriteFile(files, OutputPath(h), now) ELSE files
             /\ loc' = [loc EXCEPT ![h] = IF ok THEN @ ELSE SetFault(@, "mux")]
    /\ pc' = [pc EXCEPT ![h] = "pd_rm"]
    /\ UNCHANGED <<http, now, nextId, args, downloads_in_progress,
                   completed_downloads, sw, cached, reclaimed>>

\* lines 283-286: each temporary file is removed if it exists;
\* os.path.exists(None) raises TypeError
PdRemoveTemp(h) ==
    /\ pc[h] = "pd_rm"
    /\ LET video_path == loc[h].video_path
           audio_path == loc[h].audio_path
       IN IF video_path = NonePath
          THEN /\ Raise(h, "TypeError", "pd_except")
               /\ UNCHANGED files
          ELSE IF audio_path = NonePath
          THEN /\ Raise(h, "TypeError", "pd_except")
               /\ files' = Remove(files, video_path)
          ELSE /\ files' = Remove(Remove(files, video_path), audio_path)
               /\ pc' = [pc EXCEPT ![h] = "pd_complete"]
               /\ UNCHANGED loc
    /\ UNCHANGED <<http, now, nextId, args, downloads_in_progress,
                   completed_downloads, sw, cached, reclaimed>>

\* A progress hook call made by the extractor during extract_info (269, 510)
Progress(h, d) ==
    /\ pc[h] \in {"pd_extract", "dd_extract"}
    /\ ~loc[h].hung
    /\ downloads_in_progress' = update_progress(downloads_in_progress, h, d)
    /\ UNCHANGED <<http, now, nextId, pc, args, loc, completed_downloads, files, sw,
                   cached, reclaimed>>

\* The modification time of a file that a downloading extractor call leaves:
\* the time of its last write, between the start of the call (right after
\* the insertion of the job, 254 / 502) and its return.
WriteTimes(h) == {downloads_in_progress[h].start_time, now}

\* lines 295-300 / 310-315: extract_info returns, prepare_filename and
\* find_downloaded_file
PdExtract(h) ==
    /\ pc[h] = "pd_extract"
    /\ ~loc[h].hung
    /\ \E out \in ExtractOutcomes, ie \in InfoExts,
          available \in (IF args[h].format_id # "" THEN BOOLEAN ELSE {TRUE}),
          mtime \in WriteTimes(h) :
          LET written == Path(TEMP_FOLDER, h, "title", out)
              fs == IF out \in DiskExts THEN WriteFile(files, written, mtime)
                    ELSE files
              downloaded_file == Path(TEMP_FOLDER, h, "title", ie)
              actual_file == find_downloaded_file(fs, downloaded_file)
              selector == ProcessSelector(args[h].format_id)
              asked == [loc[h] EXCEPT
                          !.selector = selector,
                          !.target = IF available THEN @ ELSE "notfound"]
          IN IF ~Deliverable(selector, available)
             THEN /\ pc' = [pc EXCEPT ![h] = "pd_except"]
                  /\ loc' = [loc EXCEPT ![h] =
                               SetFault([asked EXCEPT !.err = "NoneType"], "format")]
                  /\ UNCHANGED files
             ELSE IF out = "none"
             THEN /\ pc' = [pc EXCEPT ![h] = "pd_except"]
                  /\ loc' = [loc EXCEPT ![h] =
                               SetFault([asked EXCEPT !.err = "NoneType"], "extractor")]
                  /\ UNCHANGED files
             ELSE /\ loc' = [loc EXCEPT ![h] =
                               LET l == [asked EXCEPT !.actual_file = actual_file]
                               IN IF actual_file = NonePath
                                  THEN SetFault(l, "extractor") ELSE l]
                  /\ pc' = [pc EXCEPT ![h] = "pd_rename"]
                  /\ files' = fs
    /\ UNCHANGED <<http, now, nextId, args, downloads_in_progress,
                   completed_downloads, sw, cached, reclaimed>>

\* lines 301-302 / 316-317
PdRename(h) ==
    /\ pc[h] = "pd_rename"
    /\ LET actual_file == loc[h].actual_file
       IN files' = IF actual_file # NonePath /\ Exists(files, actual_file)
                   THEN Rename(files, actual_file, OutputPath(h))
                   ELSE files
    /\ pc' = [pc EXCEPT ![h] = "pd_complete"]
    /\ UNCHANGED <<http, now, nextId, args, loc, downloads_in_progress,
                   completed_downloads, sw, cached, reclaimed>>

CompletedRecord(p, url, t) ==
    [status |-> "completed", file_path |-> p, download_url |-> url,
     error |-> "", completion_time |-> t]
FailedRecord(e, t) ==
    [status |-> "failed", file_path |-> NonePath, download_url |-> FALSE,
     error |-> e, completion_time |-> t]

\* lines 320-326
PdComplete(h) ==
    /\ pc[h] = "pd_complete"
    /\ completed_downloads' =
          [completed_downloads EXCEPT ![h] = CompletedRecord(OutputPath(h), TRUE, now)]
    /\ pc' = [pc EXCEPT ![h] = "pd_finally"]
    /\ UNCHANGED <<http, now, nextId, args, loc, downloads_in_progress, files, sw,
                   cached, reclaimed>>

\* lines 328-335
PdExcept(h) ==
    /\ pc[h] = "pd_except"
    /\ completed_downloads' =
          [completed_downloads EXCEPT ![h] = FailedRecord(loc[h].err, now)]
    /\ pc' = [pc EXCEPT ![h] = "pd_finally"]
    /\ UNCHANGED <<http, now, nextId, args, loc, downloads_in_progress, files, sw,
                   cached, reclaimed>>

\* The task or request of h has ended: its arguments and locals are gone.
Ended(h) ==
    /\ pc' = [pc EXCEPT ![h] = "done"]
    /\ loc' = [loc EXCEPT ![h] = NoLoc]
    /\ args' = [args EXCEPT ![h] = [NoArgs EXCEPT !.kind = args[h].kind]]

\* PdFinally with the slip of leaving the in-flight record in place.
PdFinallyKeeps(h) ==
    /\ pc[h] = "pd_finally"
    /\ Ended(h)
    /\ UNCHANGED <<http, now, nextId, downloads_in_progress, completed_downloads,
                   files, sw, cached, reclaimed>>

\* lines 337-340
PdFinally(h) ==
    /\ pc[h] = "pd_finally"
    /\ downloads_in_progress' = [downloads_in_progress EXCEPT ![h] = NoJob]
    /\ Ended(h)
    /\ UNCHANGED <<http, now, nextId, completed_downloads, files, sw, cached,
                   reclaimed>>

\* An external call (extractor or ffmpeg) that never returns: no call in
\* process_download or direct_download is given a wall-clock bound, and
\* subprocess.run at line 382 has no timeout argument.
Hang(h) ==
    /\ pc[h] \in {"pd_video", "pd_audio", "pd_merging", "pd_extract",
                  "dd_probe", "dd_extract"}
    /\ ~loc[h].hung
    /\ loc' = [loc EXCEPT ![h].hung = TRUE]
    /\ UNCHANGED <<http, now, nextId, pc, args, downloads_in_progress,
                   completed_downloads, files, sw, cached, reclaimed>>

\* ------------------------------------------- /api/direct-download (464-578)
Videos == {1}

\* lines 485-490: output_path
DirectPath(video_id, format_id, audio_id) ==
    Path(DOWNLOAD_FOLDER, video_id,
         IF audio_id # "" THEN format_id \o "_" \o audio_id ELSE format_id, "mp4")

OutputOf(h) ==
    IF args[h].kind = "bg" THEN OutputPath(h)
    ELSE DirectPath(args[h].video_id, args[h].format_id, args[h].audio_id)

\* direct_download with the slip of leaving out the cache check of line 493.
direct_downloadNoCache(video_id, format_id, audio_id) ==
    /\ nextId \in Handles
    /\ args' = [args EXCEPT ![nextId] =
                   [kind |-> "direct", video_id |-> video_id,
                    format_id |-> format_id, audio_id |-> audio_id]]
    /\ downloads_in_progress' =
          [downloads_in_progress EXCEPT ![nextId] = InFlightJob(now)]
    /\ pc' = [pc EXCEPT ![nextId] = IF audio_id # "" THEN "dd_extract" ELSE "dd_probe"]
    /\ loc' = [loc EXCEPT ![nextId].selector =
                 IF audio_id # "" THEN Selector(format_id, audio_id, "") ELSE @]
    /\ nextId' = nextId + 1
    /\ UNCHANGED <<http, now, completed_downloads, files, sw, cached, reclaimed>>

\* lines 493-507, the file is not cached: a fresh download_id is entered in
\* downloads_in_progress
direct_download(video_id, format_id, audio_id) ==
    /\ nextId \in Handles
    /\ ~Exists(files, DirectPath(video_id, format_id, audio_id))
    /\ args' = [args EXCEPT ![nextId] =
                   [kind |-> "direct", video_id |-> video_id,
                    format_id |-> format_id, audio_id |-> audio_id]]
    /\ downloads_in_progress' =
          [downloads_in_progress EXCEPT ![nextId] = InFlightJob(now)]
    /\ pc' = [pc EXCEPT ![nextId] = IF audio_id # "" THEN "dd_extract" ELSE "dd_probe"]
    /\ loc' = [loc EXCEPT ![nextId].selector =
                 IF audio_id # "" THEN Selector(format_id, audio_id, "") ELSE @]
    /\ nextId' = nextId + 1
    /\ UNCHANGED <<http, now, completed_downloads, files, sw, cached, reclaimed>>

\* lines 493-494, the file is cached: no download_id is made
DdCacheHit(video_id, format_id, audio_id) ==
    /\ cached.pc \in {"idle", "unhandled"}
    /\ Exists(files, DirectPath(video_id, format_id, audio_id))
    /\ cached' = [cached EXCEPT !.pc = "send",
                                !.path = DirectPath(video_id, format_id, audio_id)]
    /\ UNCHANGED <<http, now, nextId, pc, args, loc, downloads_in_progress,
                   completed_downloads, files, sw, reclaimed>>

\* line 495: send_file of the cached file, after which the request is over
\* ("idle").  When the file is gone send_file raises; the except clause (576)
\* then reads download_id, which is unbound on this path, and that error
\* leaves the handler ("unhandled").
DdCacheSend ==
    /\ cached.pc = "send"
    /\ cached' = [NoCached EXCEPT !.pc = IF Exists(files, cached.path)
                                        THEN "idle" ELSE "unhandled"]
    /\ UNCHANGED <<http, now, nextId, pc, args, loc, downloads_in_progress,
                   completed_downloads, files, sw, reclaimed>>

\* lines 519-532: the metadata lookup made when no audio_id is given
DdProbe(h) ==
    /\ pc[h] = "dd_probe"
    /\ ~loc[h].hung
    /\ \E cause \in {"none"} \cup FailureKinds, formats \in FormatLists :
          IF cause = "none"
          THEN /\ pc' = [pc EXCEPT ![h] = "dd_extract"]
               /\ loc' = [loc EXCEPT
                       ![h].selector = DirectSelector(args[h].format_id,
                                                      args[h].audio_id, formats),
                       ![h].target =
                           LET t == FirstFormat(formats, args[h].format_id, 1)
                           IN IF t = NoFormat THEN "notfound" ELSE t.acodec]
          ELSE \* info is None: info.get raises
               /\ pc' = [pc EXCEPT ![h] = "dd_except"]
               /\ loc' = [loc EXCEPT ![h] =
                            SetFault([@ EXCEPT !.err = "NoneType"], cause)]
    /\ UNCHANGED <<http, now, nextId, args, downloads_in_progress,
                   completed_downloads, files, sw, cached, reclaimed>>

\* lines 540-550: the download, written under outtmpl = output_path
DdExtract(h) ==
    /\ pc[h] = "dd_extract"
    /\ ~loc[h].hung
    /\ \E out \in {"none", "nofile"} \cup DirectExts, cause \in FailureKinds,
          available \in (IF loc[h].target = "unknown" THEN BOOLEAN
                         ELSE {loc[h].target # "notfound"}),
          mtime \in WriteTimes(h) :
          LET target == IF available THEN loc[h].target ELSE "notfound"
          IN
          IF ~Deliverable(loc[h].selector, available)
          THEN \* "Requested format is not available": info is None
               /\ pc' = [pc EXCEPT ![h] = "dd_except"]
               /\ loc' = [loc EXCEPT ![h] =
                            SetFault([@ EXCEPT !.err = "NoneType",
                                               !.target = target], "format")]
               /\ UNCHANGED files
          ELSE IF out = "none"
          THEN /\ pc' = [pc EXCEPT ![h] = "dd_except"]
               /\ loc' = [loc EXCEPT ![h] =
                            SetFault([@ EXCEPT !.err = "NoneType",
                                               !.target = target], cause)]
               /\ UNCHANGED files
          ELSE /\ pc' = [pc EXCEPT ![h] = "dd_pop"]
               /\ loc' = [loc EXCEPT ![h] =
                            IF out = "nofile"
                            THEN SetFault([@ EXCEPT !.target = target], "extractor")
                            ELSE [@ EXCEPT !.target = target]]
               /\ files' = IF out \in DirectExts
                           THEN WriteFile(files, [OutputOf(h) EXCEPT !.ext = out], mtime)
                           ELSE files
    /\ UNCHANGED <<http, now, nextId, args, downloads_in_progress,
                   completed_downloads, sw, cached, reclaimed>>

\* lines 553-554
DdPop(h) ==
    /\ pc[h] = "dd_pop"
    /\ downloads_in_progress' = [downloads_in_progress EXCEPT ![h] = NoJob]
    /\ pc' = [pc EXCEPT ![h] = "dd_complete"]
    /\ UNCHANGED <<http, now, nextId, args, loc, completed_downloads, files, sw,
                   cached, reclaimed>>

\* lines 556-561
DdComplete(h) ==
    /\ pc[h] = "dd_complete"
    /\ completed_downloads' =
          [completed_downloads EXCEPT ![h] = CompletedRecord(OutputOf(h), FALSE, now)]
    /\ pc' = [pc EXCEPT ![h] = "dd_find"]
    /\ UNCHANGED <<http, now, nextId, args, loc, downloads_in_progress, files, sw,
                   cached, reclaimed>>

\* DdFind with the slip of recording the job as failed when the file is not
\* found (571), over the completed record written at 556.
DdFindOverwrites(h) ==
    /\ pc[h] = "dd_find"
    /\ LET actual_file == find_downloaded_file(files, OutputOf(h))
       IN /\ files' = IF actual_file # NonePath /\ actual_file # OutputOf(h)
                      THEN Rename(files, actual_file, OutputOf(h))
                      ELSE files
          /\ completed_downloads' =
                IF actual_file = NonePath
                THEN [completed_downloads EXCEPT
                        ![h] = FailedRecord("Download failed - file not found", now)]
                ELSE completed_downloads
          /\ pc' = [pc EXCEPT ![h] = IF actual_file # NonePath THEN "sent" ELSE "done"]
    /\ loc' = [loc EXCEPT ![h] = NoLoc]
    /\ UNCHANGED args
    /\ UNCHANGED <<http, now, nextId, downloads_in_progress, sw, cached, reclaimed>>

\* lines 563-571: the file is sent ("sent"), or 500 "Download failed - file
\* not found".  The path parameters of the request stay known in args.
DdFind(h) ==
    /\ pc[h] = "dd_find"
    /\ LET actual_file == find_downloaded_file(files, OutputOf(h))
       IN /\ files' = IF actual_file # NonePath /\ actual_file # OutputOf(h)
                      THEN Rename(files, actual_file, OutputOf(h))
                      ELSE files
          /\ pc' = [pc EXCEPT ![h] = IF actual_file # NonePath THEN "sent" ELSE "done"]
    /\ loc' = [loc EXCEPT ![h] = NoLoc]
    /\ UNCHANGED args
    /\ UNCHANGED <<http, now, nextId, downloads_in_progress, completed_downloads, sw,
                   cached, reclaimed>>

\* The response of the except clause, line 578
DdExceptResponse(h) == ErrorResponse("direct-download", "U", loc[h].fault, loc[h].err)

\* DdExcept with the slip of leaving out the pop of lines 576-577.
DdExceptKeeps(h) ==
    /\ pc[h] = "dd_except"
    /\ Ended(h)
    /\ UNCHANGED <<http, now, nextId, downloads_in_progress, completed_downloads,
                   files, sw, cached, reclaimed>>

\* lines 573-578
DdExcept(h) ==
    /\ pc[h] = "dd_except"
    /\ downloads_in_progress' = [downloads_in_progress EXCEPT ![h] = NoJob]
    /\ Ended(h)
    /\ UNCHANGED <<http, now, nextId, completed_downloads, files, sw, cached,
                   reclaimed>>

\* ------------------------------------------------------ cleanup_old_files
Folders == <<DOWNLOAD_FOLDER, TEMP_FOLDER>>

Keys(tbl) == {h \in Handles : tbl[h] # NoJob}

\* the age tests of lines 46 and 55
FileIsOld(t, mtime) == t - mtime > RetentionAge
\* RecordIsOld with the slip of >= for >.
RecordIsOldInclusive(t, info) == t - info.completion_time >= RetentionAge
\* RecordIsOld with the slip of a threshold one sleep interval too long.
RecordIsOldLate(t, info) == t - info.completion_time > RetentionAge + SleepInterval
RecordIsOld(t, info) == t - info.completion_time > RetentionAge

\* The terminal jobs that, as a pass starts, are older than the retention age
\* together with their artifact (if they have one on disk).
DueAt(t) ==
    {h \in Keys(completed_downloads) :
        /\ t - completed_downloads[h].completion_time > RetentionAge
        /\ completed_downloads[h].status = "completed"
             /\ Exists(files, completed_downloads[h].file_path)
           => t - MTime(files, completed_downloads[h].file_path) > RetentionAge}

SwUnchanged ==
    UNCHANGED <<http, now, nextId, pc, args, loc, downloads_in_progress, cached>>

\* lines 41-44, after the thread start (65) or after time.sleep(3600) (61):
\* now, and os.listdir of the first folder
SwBegin ==
    /\ \/ sw.pc = "start"
       \/ sw.pc = "sleep" /\ now - sw.slept >= SleepInterval
    /\ sw' = [NoSw EXCEPT !.pc = "isfile", !.now = now, !.folder = 1,
                          !.todo = ListDir(files, Folders[1]),
                          !.due = DueAt(now)]
    /\ UNCHANGED <<completed_downloads, files, reclaimed>>
    /\ SwUnchanged

\* lines 44-46: the next filename and os.path.isfile(file_path); after the
\* last one, os.listdir of the next folder (43-44) or the start of the
\* iteration over completed_downloads (54)
SwIsFile ==
    /\ sw.pc = "isfile"
    /\ IF sw.todo # {}
       THEN \E p \in sw.todo :
               sw' = [sw EXCEPT !.todo = @ \ {p},
                                !.cur = IF Exists(files, p) THEN p ELSE NonePath,
                                !.pc = IF Exists(files, p) THEN "getmtime" ELSE "isfile"]
       ELSE IF sw.folder < Len(Folders)
       THEN sw' = [sw EXCEPT !.folder = @ + 1,
                             !.todo = ListDir(files, Folders[sw.folder + 1])]
       ELSE sw' = [sw EXCEPT !.pc = "scan", !.folder = 1, !.seen = {},
                             !.to_remove = <<>>,
                             !.used = Cardinality(Keys(completed_downloads))]
    /\ UNCHANGED <<completed_downloads, files, reclaimed>>
    /\ SwUnchanged

\* lines 46-50: os.path.getmtime raises outside the try when the file is gone;
\* os.remove is inside it and may fail
SwGetMTime ==
    /\ sw.pc = "getmtime"
    /\ IF ~Exists(files, sw.cur)
       THEN /\ sw' = [NoSw EXCEPT !.pc = "crashed"]
            /\ UNCHANGED files
       ELSE IF FileIsOld(sw.now, MTime(files, sw.cur))
       THEN \E removed \in BOOLEAN :
               /\ files' = IF removed THEN Remove(files, sw.cur) ELSE files
               /\ sw' = [sw EXCEPT !.pc = "isfile", !.cur = NonePath,
                                    !.removed =
                                        IF removed
                                        THEN @ \cup {f \in files : f.path = sw.cur}
                                        ELSE @]
       ELSE /\ sw' = [sw EXCEPT !.pc = "isfile", !.cur = NonePath]
            /\ UNCHANGED files
    /\ UNCHANGED <<completed_downloads, reclaimed>>
    /\ SwUnchanged

\* lines 54-56: one step of the iteration over completed_downloads.items();
\* the iterator raises RuntimeError when the dictionary changed size
SwScan ==
    /\ sw.pc = "scan"
    /\ IF Cardinality(Keys(completed_downloads)) # sw.used
       THEN sw' = [NoSw EXCEPT !.pc = "crashed"]
       ELSE IF Keys(completed_downloads) \ sw.seen = {}
       THEN sw' = [sw EXCEPT !.pc = "pop", !.seen = {}, !.used = 0]
       ELSE \E download_id \in Keys(completed_downloads) \ sw.seen :
               sw' = [sw EXCEPT
                        !.seen = @ \cup {download_id},
                        !.to_remove =
                            IF RecordIsOld(sw.now, completed_downloads[download_id])
                            THEN Append(@, download_id) ELSE @]
    /\ UNCHANGED <<completed_downloads, files, reclaimed>>
    /\ SwUnchanged

\* SwPop with the slip of evicting by age from downloads_in_progress as well.
SwPopInFlight ==
    /\ sw.pc = "pop"
    /\ IF sw.to_remove # <<>>
       THEN /\ completed_downloads' =
                  [completed_downloads EXCEPT ![Head(sw.to_remove)] = NoJob]
            /\ reclaimed' = IF completed_downloads[Head(sw.to_remove)] # NoJob
                            THEN reclaimed \cup {Head(sw.to_remove)} ELSE reclaimed
            /\ sw' = [sw EXCEPT !.to_remove = Tail(@)]
            /\ UNCHANGED downloads_in_progress
       ELSE /\ sw' = [NoSw EXCEPT !.pc = "sleep", !.slept = now, !.due = sw.due,
                                 !.removed = sw.removed]
            /\ downloads_in_progress' =
                  [h \in Handles |->
                     IF downloads_in_progress[h] # NoJob
                        /\ now - downloads_in_progress[h].start_time > RetentionAge
                     THEN NoJob ELSE downloads_in_progress[h]]
            /\ UNCHANGED <<completed_downloads, reclaimed>>
    /\ UNCHANGED <<http, now, nextId, pc, args, loc, cached, files>>

\* lines 58-61
SwPop ==
    /\ sw.pc = "pop"
    /\ IF sw.to_remove # <<>>
       THEN /\ completed_downloads' =
                  [completed_downloads EXCEPT ![Head(sw.to_remove)] = NoJob]
            /\ reclaimed' = IF completed_downloads[Head(sw.to_remove)] # NoJob
                            THEN reclaimed \cup {Head(sw.to_remove)} ELSE reclaimed
            /\ sw' = [sw EXCEPT !.to_remove = Tail(@)]
       ELSE /\ sw' = [NoSw EXCEPT !.pc = "sleep", !.slept = now, !.due = sw.due,
                                 !.removed = sw.removed]
            /\ UNCHANGED <<completed_downloads, reclaimed>>
    /\ UNCHANGED files
    /\ SwUnchanged

cleanup_old_files ==
    SwBegin \/ SwIsFile \/ SwGetMTime \/ SwScan \/ SwPop

process_download(h) ==
    \/ PdInsert(h)
    \/ PdDownloadSpecific(h, "video")
    \/ PdDownloadSpecific(h, "audio")
    \/ PdMergeStart(h)
    \/ PdMerge(h)
    \/ PdRemoveTemp(h)
    \/ PdExtract(h)
    \/ PdRename(h)
    \/ PdComplete(h)
    \/ PdExcept(h)
    \/ PdFinally(h)

DirectTask(h) ==
    \/ DdProbe(h)
    \/ DdExtract(h)
    \/ DdPop(h)
    \/ DdComplete(h)
    \/ DdFind(h)
    \/ DdExcept(h)

\* The optional parameters of /api/download (an audio_id without a format_id
\* is ignored by line 273) and of /api/direct-download.
DownloadArgs ==
    {[format_id |-> "", audio_id |-> ""], [format_id |-> "f1", audio_id |-> ""],
     [format_id |-> "f1", audio_id |-> "a1"]}

Requests ==
    \/ \E a \in DownloadArgs, url \in Urls :
          /\ url # "" => nextId <= MaxJobs
          /\ download_video(url, a.format_id, a.audio_id)
    \/ \E url \in Urls : get_video_info(url)
    \/ GvExtract
    \/ /\ nextId <= MaxJobs
       /\ \E video_id \in Videos, audio_id \in {"", "a1"} :
             direct_download(video_id, "f1", audio_id)
    \/ \E video_id \in Videos, audio_id \in {"", "a1"} :
          DdCacheHit(video_id, "f1", audio_id)
    \/ DdCacheSend

\* The requests of a client that uses /api/direct-download only.
DirectRequests ==
    \/ /\ nextId <= MaxDirect
       /\ \E video_id \in Videos, audio_id \in {"", "a1"} :
             direct_download(video_id, "f1", audio_id)
    \/ \E video_id \in Videos, audio_id \in {"", "a1"} :
          DdCacheHit(video_id, "f1", audio_id)
    \/ DdCacheSend

Next ==
    \/ Tick
    \/ Requests
    \/ \E h \in Handles : process_download(h)
    \/ \E h \in Handles : DirectTask(h)
    \/ \E h \in Handles, d \in Events : Progress(h, d)
    \/ \E h \in Handles : Hang(h)
    \/ cleanup_old_files

Spec == Init /\ [][Next]_vars

\* The service under direct-download requests only, each of whose extractor
\* calls returns; the progress events, which no decision of direct_download
\* reads, are left out.
DirectNext ==
    \/ Tick
    \/ DirectRequests
    \/ \E h \in Handles : DirectTask(h)
    \/ cleanup_old_files

DirectSpec == Init /\ [][DirectNext]_vars

\* Every runnable thread keeps running: each task, each request and the
\* cleanup thread take their next step when one is possible.
FairSpec ==
    /\ Spec
    /\ \A h \in Handles : WF_vars(process_download(h) \/ DirectTask(h))
    /\ WF_vars(cleanup_old_files)
    /\ WF_vars(DdCacheSend)

\* ------------------------------------------------------------------ claims
InFlight(h) == downloads_in_progress[h] # NoJob
Terminal(h) == completed_downloads[h] # NoJob

\* The job of h exists: its first insertion into downloads_in_progress (254,
\* 502) has been executed.
Registered(h) == pc[h] \notin {"idle", "pd_insert"}

\* C1: every job that exists and has not been reclaimed by the sweeper is a
\* key of exactly one of downloads_in_progress and completed_downloads.
C1_ExactlyOneTable ==
    \A h \in Handles :
        Registered(h) /\ h \notin reclaimed => (InFlight(h) <=> ~Terminal(h))

\* C2: once download_video has returned handle h, a status poll for h finds a
\* job and never 404, until the sweeper reclaims the job.
C2_ReturnedHandleHasJob ==
    \A h \in Handles :
        args[h].kind = "bg" /\ pc[h] # "idle" /\ h \notin reclaimed
            => check_download_status(h).code # 404

\* C3: while the state of a job is downloading, its stored progress never
\* decreases, whatever progress events the extractor delivers.
C3_ProgressMonotone ==
    [][\A h \in Handles :
          InFlight(h) /\ downloads_in_progress'[h] # NoJob
          /\ downloads_in_progress[h].status = "downloading"
          /\ downloads_in_progress'[h].status = "downloading"
          => downloads_in_progress'[h].progress >= downloads_in_progress[h].progress]_vars

\* C4: an in-flight job whose state is processing has progress exactly 100.
C4_ProcessingPinned ==
    \A h \in Handles :
        InFlight(h) /\ downloads_in_progress[h].status = "processing"
            => downloads_in_progress[h].progress = 100

\* C5: a record of completed_downloads is never changed, only removed, and
\* only by the sweeper's pop (59); and a handle that has a record there and
\* has left downloads_in_progress never enters it again.
C5_TerminalImmutable ==
    [][\A h \in Handles :
          Terminal(h) =>
            /\ \/ completed_downloads'[h] = completed_downloads[h]
               \/ /\ completed_downloads'[h] = NoJob
                  /\ sw.pc = "pop"
                  /\ sw.to_remove # <<>>
                  /\ Head(sw.to_remove) = h
            /\ ~InFlight(h) => downloads_in_progress'[h] = NoJob]_vars

\* C5 witness: a terminal record has outlived its task, time has passed since
\* it was written and the sweeper is scanning the table.
C5_Witness ==
    \E h \in Handles :
        /\ Terminal(h)
        /\ pc[h] = "done"
        /\ now > completed_downloads[h].completion_time
        /\ sw.pc = "scan"

\* C6: a background task in which an error arose (extractor failure, stream
\* file not produced, muxing failure) records the job as failed, never as
\* completed.
C6_ErrorsEndFailed ==
    \A h \in Handles :
        args[h].kind = "bg" /\ pc[h] = "pd_finally" /\ loc[h].fault # "none"
            => completed_downloads[h].status = "failed"

\* Of the error texts of the model, the ones that contain "timed out".
ContainsTimedOut(e) == e \in {"timed out"}

\* C7: a background job whose extractor or muxer call does not return
\* eventually leaves downloads_in_progress and is recorded failed with an
\* error containing "timed out".
C7_TimeoutEndsFailed ==
    \A h \in Handles :
        (args[h].kind = "bg" /\ loc[h].hung) ~>
            /\ ~InFlight(h)
            /\ Terminal(h)
            /\ completed_downloads[h].status = "failed"
            /\ ContainsTimedOut(completed_downloads[h].error)

\* C8: when a record with state completed is written, the file named by its
\* file_path exists.
C8_CompletedHasArtifact ==
    [][\A h \in Handles :
          /\ completed_downloads'[h] # completed_downloads[h]
          /\ completed_downloads'[h] # NoJob
          /\ completed_downloads'[h].status = "completed"
          => Exists(files', completed_downloads'[h].file_path)]_vars

\* C9: after a pass of the sweeper, every terminal job that was older than
\* 7200 seconds (record and artifact) when the pass started is answered 404
\* by the status endpoint and by the get-file endpoint.
C9_SweptNotRetrievable ==
    sw.pc = "sleep" =>
        \A h \in sw.due :
            /\ check_download_status(h).code = 404
            /\ get_downloaded_file(h) = 404

\* C9 witness: a pass that started with such a job has ended.
C9_Witness == sw.pc = "sleep" /\ sw.due # {}

\* C10: the cleanup thread never ends: no pass is left by an exception.
C10_SweeperNeverDies == sw.pc # "crashed"

\* C11: no step of cleanup_old_files removes or changes a record of
\* downloads_in_progress, however old the job is.
C11_SweepKeepsInFlight ==
    [][sw' # sw => downloads_in_progress' = downloads_in_progress]_vars

\* C11 witness: a pass has ended while a job older than the retention age was
\* in flight.
C11_Witness ==
    \E h \in Handles :
        /\ InFlight(h)
        /\ sw.pc = "sleep"
        /\ sw.slept - downloads_in_progress[h].start_time > RetentionAge

\* C12: the status endpoint answers 404 for every handle that was never
\* issued and for every handle whose record the sweeper has reclaimed.
C12_UnknownHandleNotFound ==
    \A h \in Handles :
        h >= nextId \/ h \in reclaimed => check_download_status(h).code = 404

\* C12 witness: the sweeper has reclaimed the record of a job.
C12_Witness == \E h \in Handles : h < nextId /\ h \in reclaimed

\* A step in which a direct-download request for the triple of h makes a new
\* job and goes on to call the extractor.
Redownload(h) ==
    /\ nextId' # nextId
    /\ args'[nextId].kind = "direct"
    /\ DirectPath(args'[nextId].video_id, args'[nextId].format_id,
                  args'[nextId].audio_id) = OutputOf(h)

C14_DirectErrorsHandled == cached.pc # "unhandled"

\* The HTTP status the three failure kinds are to be answered with.
StatusOf(cause) ==
    IF cause = "timeout" THEN 504 ELSE IF cause = "unavailable" THEN 404 ELSE 500

\* C15: /api/video-info and /api/direct-download answer a gateway timeout
\* with 504, an unavailable video with 404 and any other failure with 500.
C15_FailureKindsDistinguished ==
    /\ http.handler = "video-info" /\ http.pc = "responded"
       /\ http.cause \in FailureKinds
         => http.code = StatusOf(http.cause)
    /\ \A h \in Handles :
          pc[h] = "dd_except" /\ loc[h].fault \in FailureKinds
            => DdExceptResponse(h).code = StatusOf(loc[h].fault)

\* C16: a request to /api/download or /api/video-info without a url is
\* answered 400 {"error": "Missing video URL"} and changes nothing else: no
\* handle, no task, no extractor call, both tables as they were.
C16_MissingUrlRejected ==
    [][/\ http' # http
       /\ http'.url = ""
       /\ http'.handler \in {"download", "video-info"}
       => /\ http'.pc = "responded"
          /\ http'.code = 400
          /\ http'.error = "Missing video URL"
          /\ UNCHANGED <<nextId, pc, args, loc, downloads_in_progress,
                         completed_downloads, files>>]_vars

\* C16 witness: /api/download has answered a request without a url while a
\* job was in flight.
C16_Witness ==
    /\ http.handler = "download"
    /\ http.url = ""
    /\ http.pc = "responded"
    /\ \E h \in Handles : InFlight(h)

\* C17: no reader is given a file that its writer has not finished: the file
\* that /api/get-file sends for a handle, and a file that the cache check of
\* /api/direct-download finds under the name of a triple, are whole.
C17_NoPartialArtifactServed ==
    /\ \A h \in Handles :
          get_downloaded_file(h) = 200
            => Whole(files, completed_downloads[h].file_path)
    /\ \A video_id \in Videos, audio_id \in {"", "a1"} :
          Exists(files, DirectPath(video_id, "f1", audio_id))
            => Whole(files, DirectPath(video_id, "f1", audio_id))

\* C18: in direct_download without an audio_id, the selector handed to the
\* extractor is format_id+bestaudio exactly when the requested variant
\* carries no audio, and format_id alone exactly when it carries audio.
C18_SelectorPairsAudio ==
    \A h \in Handles :
        args[h].kind = "direct" /\ args[h].audio_id = "" /\ pc[h] = "dd_extract"
          => /\ loc[h].selector = Selector(args[h].format_id, "bestaudio", "")
                  <=> loc[h].target = "none"
             /\ loc[h].selector = Selector(args[h].format_id, "", "")
                  <=> loc[h].target \in ACodecs \ {"none"}

\* C19: when the requested variant is not available, a background job with
\* a format_id and no audio_id, and a direct-download request, hand the
\* extractor a selector with a fallback to the best video+audio, and do not
\* fail for the missing variant.
C19_UnavailableFallsBack ==
    \A h \in Handles :
        /\ args[h].format_id # ""
        /\ args[h].kind = "direct" \/ args[h].audio_id = ""
        /\ loc[h].target = "notfound"
        /\ pc[h] \notin {"dd_probe", "dd_extract"}
        => /\ loc[h].selector.fallback = "best"
           /\ loc[h].fault # "format"

\* C20: update_progress for a handle that is not a key of
\* downloads_in_progress (never inserted, or removed by its task) leaves the
\* table as it is, whatever the event: no entry is made and none is changed.
C20_ProgressOfAbsentIsNoOp ==
    \A h \in Handles, d \in Events :
        ~InFlight(h)
          => update_progress(downloads_in_progress, h, d) = downloads_in_progress

\* C20 witness: the task of a job has reported progress, ended and removed
\* the job from downloads_in_progress.
C20_Witness ==
    \E h \in Handles :
        /\ args[h].kind = "bg"
        /\ pc[h] = "done"
        /\ ~InFlight(h)
        /\ Terminal(h)

\* C21: a record leaves completed_downloads only by the pop of a pass whose
\* timestamp is more than 7200 seconds after its completion_time; every
\* other record stays as it is and the status endpoint goes on answering
\* for it.
C21_OnlyOldRecordsEvicted ==
    [][\A h \in Handles :
          Terminal(h) =>
            /\ completed_downloads'[h] = NoJob
                 => /\ sw.pc = "pop"
                    /\ sw.now - completed_downloads[h].completion_time > RetentionAge
            /\ completed_downloads'[h] # NoJob
                 => /\ completed_downloads'[h] = completed_downloads[h]
                    /\ check_download_status(h)'.code = 200]_vars

\* C21 witness: a pass has ended and has left in the table a record that
\* was exactly 7200 seconds old.
C21_Witness ==
    \E h \in Handles :
        /\ Terminal(h)
        /\ sw.pc = "sleep"
        /\ sw.slept - completed_downloads[h].completion_time = RetentionAge

\* C22: a handle whose task or request has ended, by success or by an
\* exception, is not a key of downloads_in_progress, so that the table is
\* empty when nothing runs; and every entry is removed in the end unless an
\* external call of its owner never returns.
C22_EntriesAreRemoved ==
    /\ [](\A h \in Handles :
            pc[h] \in {"idle", "done", "sent"} => ~InFlight(h))
    /\ \A h \in Handles : []<>(~InFlight(h) \/ loc[h].hung)

\* C22 witness: a direct-download request has ended by an exception.
C22_Witness ==
    \E h \in Handles :
        /\ args[h].kind = "direct"
        /\ pc[h] = "done"
        /\ ~Terminal(h)
        /\ ~InFlight(h)

\* C23: after a pass of the sweeper, no handle has a record with state
\* completed and a download URL, which the status endpoint reports, while
\* the pass has deleted its finished artifact, for which /api/get-file
\* answers 404.
C23_RecordAndArtifactConsistent ==
    sw.pc = "sleep" =>
        \A h \in Handles :
            ~ /\ check_download_status(h).status = "completed"
              /\ completed_downloads[h] # NoJob
              /\ completed_downloads[h].download_url
              /\ \E f \in sw.removed :
                    f.path = completed_downloads[h].file_path /\ f.whole
              /\ get_downloaded_file(h) = 404

=============================================================================
